---- MODULE Spec2Model ----
(***************************************************************************)
(* Model of the useWebSerial hook (src/index.js): one hook instance at a   *)
(* time (a remount creates a fresh instance), the process-wide             *)
(* webSerialContext, and the host serial ports the hook drives.            *)
(*                                                                         *)
(* Every async handler is split at its await: the call action runs the     *)
(* code up to the await, the matching settle/resolve action runs the       *)
(* continuation when the host promise settles.                             *)
(***************************************************************************)
EXTENDS Integers, Sequences, FiniteSets, TLC

\* ------------------------------------------------------------------ bounds
MaxInstances == 2      \* hook instances created in one process lifetime
MaxChunks == 2         \* chunks the transport yields to one reader

Ports == {1, 2}        \* the device handles of the host: SerialPort objects
NoPort == 0            \* null: useState(null), and the "no task" tag
Data == {<<1>>, <<2, 3>>}   \* buffers handed to write

VARIABLES
  initialized,      \* webSerialContext.initialized
  ctxPorts,         \* webSerialContext.ports
  getPortsCalls,    \* number of navigator.serial.getPorts() calls made
  hostState,        \* host: per port "closed" | "opening" | "opened" | "closing"
  readableLocked,   \* host: port.readable.locked
  cancelRequested,  \* port.cancelRequested (expando set by the hook)
  yielded,          \* per port: chunks reader.read() has yielded to the latest reader of
                    \* the port's stream (0 once the port, and its stream, is closed)
  delivered,        \* per port: chunk numbers that reader's loop has passed to onData
  tx,               \* per port: bytes the transport has received
  devOut,           \* host: output signals last applied by setSignals, <<break, dtr, rts>>
  hostConfig,       \* host: per port the options it is open (or opening) with, <<>> if closed
  pendingInst,      \* per port: instance awaiting the in-flight open()/close()
  enumPending,      \* instance awaiting getPorts(), or NoPort
  reqPending,       \* instance awaiting requestPort(), or NoPort
  pollPending,      \* in-flight getSignals(): <<>> or <<[inst, port, cts]>>
  inst,             \* number of the live hook instance
  effectPending,    \* the mount effects of the live instance have not run yet
  port,             \* useState: selected port
  ports,            \* useState: known ports
  isOpen,           \* useState
  isReading,        \* useState
  outSig,           \* useState: <<breakSignal, dataTerminalReady, requestToSend>>
  inSig,            \* useState: [cts, dcd, dsr, ri]
  config,           \* useState: [baudRate, bufferSize, dataBits, stopBits, flowControl, parity]
  ev                \* what the last step did: handler, outcome, host calls and setters
                    \* invoked, and for write the buffer passed

hostVars == <<hostState, readableLocked, cancelRequested,
              yielded, delivered, tx, devOut, hostConfig>>
ctxVars == <<initialized, ctxPorts, getPortsCalls>>
taskVars == <<pendingInst, enumPending, reqPending, pollPending>>
hookVars == <<inst, effectPending, port, ports, isOpen, isReading, outSig, inSig, config>>
vars == <<hostVars, ctxVars, taskVars, hookVars, ev>>

\* ----------------------------------------------------------------- helpers
EvArg(op, res, calls, arg) == [op |-> op, res |-> res, calls |-> calls, arg |-> arg]
Ev(op, res, calls) == EvArg(op, res, calls, <<>>)

\* port.readable is non-null exactly while the host has the port opened
Readable(p) == hostState[p] = "opened"

\* what getPorts() can resolve with: the granted ports, in handle order
SetToSeq(S) ==
  CHOOSE s \in [1..Cardinality(S) -> S] : \A i, j \in 1..Cardinality(S) : i < j => s[i] < s[j]
PortLists == {SetToSeq(S) : S \in SUBSET Ports}

InSig0 == [cts |-> FALSE, dcd |-> FALSE, dsr |-> FALSE, ri |-> FALSE]
OutSig0 == <<FALSE, FALSE, FALSE>>
Config0 == [baudRate |-> 115200, bufferSize |-> 255, dataBits |-> 8, stopBits |-> 1,
            flowControl |-> "none", parity |-> "none"]

\* the session state of the spec, read off the selected port
SessionClosed == port = NoPort \/ ~Readable(port)
SessionReading == ~SessionClosed /\ readableLocked[port]
SessionOpen == ~SessionClosed /\ ~readableLocked[port]

\* useEffect(..., [port, dataTerminalReady, requestToSend, breakSignal]):
\* runs after a render in which one of the deps changed
setSignalsRuns(newPort, newOut) ==
  /\ (newPort # port \/ newOut # outSig)
  /\ newPort # NoPort
  /\ Readable(newPort)

setSignalsEffect(newPort, newOut) ==
  IF setSignalsRuns(newPort, newOut)
    THEN [devOut EXCEPT ![newPort] = newOut]
    ELSE devOut

EffectCalls(newPort, newOut) ==
  IF setSignalsRuns(newPort, newOut) THEN {"setSignals"} ELSE {}

\* -------------------------------------------------------------------- Init
InitState ==
  /\ initialized = FALSE
  /\ ctxPorts = <<>>
  /\ getPortsCalls = 0
  /\ hostState = [p \in Ports |-> "closed"]
  /\ readableLocked = [p \in Ports |-> FALSE]
  /\ cancelRequested = [p \in Ports |-> FALSE]
  /\ yielded = [p \in Ports |-> 0]
  /\ delivered = [p \in Ports |-> <<>>]
  /\ tx = [p \in Ports |-> <<>>]
  /\ devOut = [p \in Ports |-> OutSig0]
  /\ hostConfig = [p \in Ports |-> <<>>]
  /\ pendingInst = [p \in Ports |-> NoPort]
  /\ enumPending = NoPort
  /\ reqPending = NoPort
  /\ pollPending = <<>>
  /\ inst = 1
  /\ effectPending = TRUE
  /\ port = NoPort
  /\ ports = <<>>
  /\ isOpen = FALSE
  /\ isReading = FALSE
  /\ outSig = OutSig0
  /\ inSig = InSig0
  /\ config = Config0

Init ==
  /\ InitState
  /\ ev = Ev("init", "ok", {})

\* ------------------------------------------------------ PortRegistry glue
\* enumerationEffect without the `initialized` early return
enumerationEffectNoGuard ==
  /\ effectPending
  /\ effectPending' = FALSE
  /\ initialized' = TRUE
  /\ getPortsCalls' = getPortsCalls + 1
  /\ enumPending' = inst
  /\ UNCHANGED ctxPorts
  /\ ev' = Ev("mount", "pending", {"getPorts"})
  /\ UNCHANGED <<hostVars, pendingInst, reqPending, pollPending,
                 inst, port, ports, isOpen, isReading, outSig, inSig, config>>

\* the enumeration effect, run once after the first render of an instance
enumerationEffect ==
  /\ effectPending
  /\ effectPending' = FALSE
  /\ IF initialized
       THEN /\ UNCHANGED <<ctxVars, enumPending>>
            /\ ev' = Ev("mount", "ok", {})
       ELSE /\ initialized' = TRUE
            /\ getPortsCalls' = getPortsCalls + 1
            /\ enumPending' = inst
            /\ UNCHANGED ctxPorts
            /\ ev' = Ev("mount", "pending", {"getPorts"})
  /\ UNCHANGED <<hostVars, pendingInst, reqPending, pollPending,
                 inst, port, ports, isOpen, isReading, outSig, inSig, config>>

\* .then((ports) => {...}) of the enumeration effect
getPortsResolve(list) ==
  /\ enumPending # NoPort
  /\ enumPending' = NoPort
  /\ LET live == enumPending = inst
         newPort == IF Len(list) >= 1 /\ live THEN list[1] ELSE port
     IN /\ ctxPorts' = IF Len(list) >= 1 THEN list ELSE ctxPorts
        /\ ports' = IF Len(list) >= 1 /\ live THEN list ELSE ports
        /\ port' = newPort
        /\ devOut' = setSignalsEffect(newPort, outSig)
        /\ ev' = Ev("getPortsResolve", "ok", EffectCalls(newPort, outSig))
  /\ UNCHANGED <<hostState, readableLocked, cancelRequested,
                 yielded, delivered, tx, hostConfig, initialized, getPortsCalls,
                 pendingInst, reqPending, pollPending,
                 inst, effectPending, isOpen, isReading, outSig, inSig, config>>

\* a later mount of the component: a fresh instance, same process and host
remount ==
  /\ ~effectPending
  /\ inst < MaxInstances
  /\ inst' = inst + 1
  /\ effectPending' = TRUE
  /\ port' = NoPort
  /\ ports' = ctxPorts
  /\ isOpen' = FALSE
  /\ isReading' = FALSE
  /\ outSig' = OutSig0
  /\ inSig' = InSig0
  /\ config' = Config0
  /\ ev' = Ev("remount", "ok", {})
  /\ UNCHANGED <<hostVars, ctxVars, taskVars>>

requestPort ==
  /\ ~effectPending
  /\ reqPending = NoPort
  /\ reqPending' = inst
  /\ ev' = Ev("requestPort", "pending", {"requestPort"})
  /\ UNCHANGED <<hostVars, ctxVars, pendingInst, enumPending, pollPending, hookVars>>

requestPortResolve(p) ==
  /\ reqPending # NoPort
  /\ reqPending' = NoPort
  /\ LET newPort == IF reqPending = inst THEN p ELSE port
     IN /\ port' = newPort
        /\ devOut' = setSignalsEffect(newPort, outSig)
        /\ ev' = Ev("requestPortResolve", "ok", EffectCalls(newPort, outSig))
  /\ UNCHANGED <<hostState, readableLocked, cancelRequested,
                 yielded, delivered, tx, hostConfig, ctxVars,
                 pendingInst, enumPending, pollPending,
                 inst, effectPending, ports, isOpen, isReading, outSig, inSig, config>>

\* the user dismisses the chooser: requestPort() rejects, the await rethrows
requestPortReject ==
  /\ reqPending # NoPort
  /\ reqPending' = NoPort
  /\ ev' = Ev("requestPortReject", "AuthorizationDenied", {})
  /\ UNCHANGED <<hostVars, ctxVars, pendingInst, enumPending, pollPending, hookVars>>

\* the returned setPort is the bare state setter
setPort(p) ==
  /\ ~effectPending
  /\ port' = p
  /\ devOut' = setSignalsEffect(p, outSig)
  /\ ev' = Ev("setPort", "ok", EffectCalls(p, outSig))
  /\ UNCHANGED <<hostState, readableLocked, cancelRequested,
                 yielded, delivered, tx, hostConfig, ctxVars, taskVars,
                 inst, effectPending, ports, isOpen, isReading, outSig, inSig, config>>

\* ------------------------------------------------------------ PortSession
\* openPort without the `port.readable` check
openPortNoOpenCheck ==
  /\ ~effectPending
  /\ IF port = NoPort
       THEN /\ ev' = Ev("openPort", "NoPortSelected", {})
            /\ UNCHANGED <<hostState, hostConfig, pendingInst>>
       ELSE IF hostState[port] = "closed"
       THEN /\ hostState' = [hostState EXCEPT ![port] = "opening"]
            /\ hostConfig' = [hostConfig EXCEPT ![port] = config]
            /\ pendingInst' = [pendingInst EXCEPT ![port] = inst]
            /\ ev' = Ev("openPort", "pending", {"open"})
       ELSE /\ ev' = Ev("openPort", "DeviceError", {"open"})
            /\ UNCHANGED <<hostState, hostConfig, pendingInst>>
  /\ UNCHANGED <<readableLocked, cancelRequested, yielded, delivered, tx, devOut,
                 ctxVars, enumPending, reqPending, pollPending, hookVars>>

openPort ==
  /\ ~effectPending
  /\ IF port = NoPort
       THEN /\ ev' = Ev("openPort", "NoPortSelected", {})
            /\ UNCHANGED <<hostState, hostConfig, pendingInst>>
       ELSE IF Readable(port)
       THEN /\ ev' = Ev("openPort", "AlreadyOpen", {})
            /\ UNCHANGED <<hostState, hostConfig, pendingInst>>
       ELSE IF hostState[port] = "closed"
       THEN \* port.open(options) is accepted; the handler suspends at the await
            /\ hostState' = [hostState EXCEPT ![port] = "opening"]
            /\ hostConfig' = [hostConfig EXCEPT ![port] = config]
            /\ pendingInst' = [pendingInst EXCEPT ![port] = inst]
            /\ ev' = Ev("openPort", "pending", {"open"})
       ELSE \* readable is still null while the host is opening or closing the
            \* port: open() is called again and the host rejects it
            /\ ev' = Ev("openPort", "DeviceError", {"open"})
            /\ UNCHANGED <<hostState, hostConfig, pendingInst>>
  /\ UNCHANGED <<readableLocked, cancelRequested, yielded, delivered, tx, devOut,
                 ctxVars, enumPending, reqPending, pollPending, hookVars>>

\* openSettle with setIsOpen(true) run whether or not open() succeeded
openSettleAlwaysSetsOpen(p, ok) ==
  /\ hostState[p] = "opening"
  /\ pendingInst' = [pendingInst EXCEPT ![p] = NoPort]
  /\ isOpen' = IF pendingInst[p] = inst THEN TRUE ELSE isOpen
  /\ IF ok
       THEN /\ hostState' = [hostState EXCEPT ![p] = "opened"]
            /\ ev' = Ev("openSettle", "ok", {})
       ELSE /\ hostState' = [hostState EXCEPT ![p] = "closed"]
            /\ ev' = Ev("openSettle", "DeviceError", {})
  /\ hostConfig' = IF ok THEN hostConfig ELSE [hostConfig EXCEPT ![p] = <<>>]
  /\ UNCHANGED <<readableLocked, cancelRequested, yielded, delivered, tx, devOut,
                 ctxVars, enumPending, reqPending, pollPending,
                 inst, effectPending, port, ports, isReading, outSig, inSig, config>>

\* the host open() promise settles: continuation of openPort after the await
openSettle(p, ok) ==
  /\ hostState[p] = "opening"
  /\ pendingInst' = [pendingInst EXCEPT ![p] = NoPort]
  /\ IF ok
       THEN /\ hostState' = [hostState EXCEPT ![p] = "opened"]
            /\ isOpen' = IF pendingInst[p] = inst THEN TRUE ELSE isOpen
            /\ ev' = Ev("openSettle", "ok", {})
       ELSE /\ hostState' = [hostState EXCEPT ![p] = "closed"]
            /\ isOpen' = isOpen
            /\ ev' = Ev("openSettle", "DeviceError", {})
  /\ hostConfig' = IF ok THEN hostConfig ELSE [hostConfig EXCEPT ![p] = <<>>]
  /\ UNCHANGED <<readableLocked, cancelRequested, yielded, delivered, tx, devOut,
                 ctxVars, enumPending, reqPending, pollPending,
                 inst, effectPending, port, ports, isReading, outSig, inSig, config>>

\* closePort without the `port.readable.locked` check
closePortNoLockCheck ==
  /\ ~effectPending
  /\ IF port = NoPort
       THEN /\ ev' = Ev("closePort", "NoPortSelected", {})
            /\ UNCHANGED <<hostState, pendingInst>>
       ELSE IF ~Readable(port)
       THEN /\ ev' = Ev("closePort", "NotOpen", {})
            /\ UNCHANGED <<hostState, pendingInst>>
       ELSE /\ hostState' = [hostState EXCEPT ![port] = "closing"]
            /\ pendingInst' = [pendingInst EXCEPT ![port] = inst]
            /\ ev' = Ev("closePort", "pending", {"close"})
  /\ UNCHANGED <<readableLocked, cancelRequested, yielded, delivered, tx, devOut,
                 hostConfig, ctxVars, enumPending, reqPending, pollPending, hookVars>>

closePort ==
  /\ ~effectPending
  /\ IF port = NoPort
       THEN /\ ev' = Ev("closePort", "NoPortSelected", {})
            /\ UNCHANGED <<hostState, pendingInst>>
       ELSE IF ~Readable(port)
       THEN /\ ev' = Ev("closePort", "NotOpen", {})
            /\ UNCHANGED <<hostState, pendingInst>>
       ELSE IF readableLocked[port]
       THEN /\ ev' = Ev("closePort", "ReadLocked", {})
            /\ UNCHANGED <<hostState, pendingInst>>
       ELSE /\ hostState' = [hostState EXCEPT ![port] = "closing"]
            /\ pendingInst' = [pendingInst EXCEPT ![port] = inst]
            /\ ev' = Ev("closePort", "pending", {"close"})
  /\ UNCHANGED <<readableLocked, cancelRequested, yielded, delivered, tx, devOut,
                 hostConfig, ctxVars, enumPending, reqPending, pollPending, hookVars>>

\* the host close() promise settles: continuation of closePort after the await
closeSettle(p, ok) ==
  /\ hostState[p] = "closing"
  /\ pendingInst' = [pendingInst EXCEPT ![p] = NoPort]
  /\ IF ok
       THEN /\ hostState' = [hostState EXCEPT ![p] = "closed"]
            /\ isOpen' = IF pendingInst[p] = inst THEN FALSE ELSE isOpen
            /\ ev' = Ev("closeSettle", "ok", {})
       ELSE /\ hostState' = [hostState EXCEPT ![p] = "opened"]
            /\ isOpen' = isOpen
            /\ ev' = Ev("closeSettle", "DeviceError", {})
  /\ hostConfig' = IF ok THEN [hostConfig EXCEPT ![p] = <<>>] ELSE hostConfig
  /\ yielded' = IF ok THEN [yielded EXCEPT ![p] = 0] ELSE yielded
  /\ delivered' = IF ok THEN [delivered EXCEPT ![p] = <<>>] ELSE delivered
  /\ UNCHANGED <<readableLocked, cancelRequested, tx, devOut,
                 ctxVars, enumPending, reqPending, pollPending,
                 inst, effectPending, port, ports, isReading, outSig, inSig, config>>

\* startReading that takes a fresh reader even when the stream is locked
startReadingRestartsLoop ==
  /\ ~effectPending
  /\ IF port = NoPort
       THEN /\ ev' = Ev("startReading", "NoPortSelected", {})
            /\ UNCHANGED <<isReading, readableLocked, cancelRequested, yielded, delivered>>
       ELSE IF ~Readable(port)
       THEN /\ ev' = Ev("startReading", "NotOpen", {})
            /\ UNCHANGED <<isReading, readableLocked, cancelRequested, yielded, delivered>>
       ELSE /\ isReading' = TRUE
            /\ cancelRequested' = [cancelRequested EXCEPT ![port] = FALSE]
            /\ readableLocked' = [readableLocked EXCEPT ![port] = TRUE]
            /\ yielded' = [yielded EXCEPT ![port] = 0]
            /\ delivered' = [delivered EXCEPT ![port] = <<>>]
            /\ ev' = Ev("startReading", "pending", {"read"})
  /\ UNCHANGED <<hostState, tx, devOut, hostConfig, ctxVars, taskVars,
                 inst, effectPending, port, ports, isOpen, outSig, inSig, config>>

startReading ==
  /\ ~effectPending
  /\ IF port = NoPort
       THEN /\ ev' = Ev("startReading", "NoPortSelected", {})
            /\ UNCHANGED <<isReading, readableLocked, cancelRequested, yielded, delivered>>
       ELSE IF ~Readable(port)
       THEN /\ ev' = Ev("startReading", "NotOpen", {})
            /\ UNCHANGED <<isReading, readableLocked, cancelRequested, yielded, delivered>>
       ELSE /\ isReading' = TRUE
            /\ cancelRequested' = [cancelRequested EXCEPT ![port] = FALSE]
            /\ IF readableLocked[port]
                 THEN \* getReader() on a locked stream throws
                      /\ ev' = Ev("startReading", "TypeError", {})
                      /\ UNCHANGED <<readableLocked, yielded, delivered>>
                 ELSE \* reader acquired, first reader.read() issued
                      /\ readableLocked' = [readableLocked EXCEPT ![port] = TRUE]
                      /\ yielded' = [yielded EXCEPT ![port] = 0]
                      /\ delivered' = [delivered EXCEPT ![port] = <<>>]
                      /\ ev' = Ev("startReading", "pending", {"read"})
  /\ UNCHANGED <<hostState, tx, devOut, hostConfig, ctxVars, taskVars,
                 inst, effectPending, port, ports, isOpen, outSig, inSig, config>>

\* readChunk with a loop condition that never looks at cancelRequested
readChunkNoCancel(p, onDataThrows) ==
  /\ readableLocked[p]
  /\ yielded[p] < MaxChunks
  /\ yielded' = [yielded EXCEPT ![p] = yielded[p] + 1]
  /\ delivered' = [delivered EXCEPT ![p] = Append(delivered[p], yielded[p] + 1)]
  /\ IF onDataThrows
       THEN /\ readableLocked' = [readableLocked EXCEPT ![p] = FALSE]
            /\ ev' = Ev("read", "OnDataError", {})
       ELSE /\ readableLocked' = readableLocked
            /\ ev' = Ev("read", "pending", {"read"})
  /\ UNCHANGED <<hostState, cancelRequested, tx, devOut, hostConfig,
                 ctxVars, taskVars, hookVars>>

\* reader.read() resolves with a chunk: the rest of one loop iteration
readChunk(p, onDataThrows) ==
  /\ readableLocked[p]
  /\ yielded[p] < MaxChunks
  /\ yielded' = [yielded EXCEPT ![p] = yielded[p] + 1]
  /\ delivered' = [delivered EXCEPT ![p] = Append(delivered[p], yielded[p] + 1)]
  /\ IF onDataThrows
       THEN /\ readableLocked' = [readableLocked EXCEPT ![p] = FALSE]
            /\ ev' = Ev("read", "OnDataError", {})
       ELSE IF cancelRequested[p]
       THEN /\ readableLocked' = [readableLocked EXCEPT ![p] = FALSE]
            /\ ev' = Ev("read", "cancelled", {})
       ELSE /\ readableLocked' = readableLocked
            /\ ev' = Ev("read", "pending", {"read"})
  /\ UNCHANGED <<hostState, cancelRequested, tx, devOut, hostConfig,
                 ctxVars, taskVars, hookVars>>

\* reader.read() resolves with done: break, then finally
readDone(p) ==
  /\ readableLocked[p]
  /\ readableLocked' = [readableLocked EXCEPT ![p] = FALSE]
  /\ ev' = Ev("read", "done", {})
  /\ UNCHANGED <<hostState, cancelRequested, yielded, delivered, tx, devOut,
                 hostConfig, ctxVars, taskVars, hookVars>>

\* readError without the finally block: the reader is never released
readErrorKeepsLock(p) ==
  /\ readableLocked[p]
  /\ readableLocked' = readableLocked
  /\ ev' = Ev("read", "DeviceError", {})
  /\ UNCHANGED <<hostState, cancelRequested, yielded, delivered, tx, devOut,
                 hostConfig, ctxVars, taskVars, hookVars>>

\* reader.read() rejects: finally, then the error leaves startReading
readError(p) ==
  /\ readableLocked[p]
  /\ readableLocked' = [readableLocked EXCEPT ![p] = FALSE]
  /\ ev' = Ev("read", "DeviceError", {})
  /\ UNCHANGED <<hostState, cancelRequested, yielded, delivered, tx, devOut,
                 hostConfig, ctxVars, taskVars, hookVars>>

stopReading ==
  /\ ~effectPending
  /\ IF port = NoPort
       THEN /\ ev' = Ev("stopReading", "NoPortSelected", {})
            /\ UNCHANGED <<isReading, cancelRequested>>
       ELSE IF ~Readable(port)
       THEN /\ ev' = Ev("stopReading", "NotOpen", {})
            /\ UNCHANGED <<isReading, cancelRequested>>
       ELSE /\ isReading' = FALSE
            /\ cancelRequested' = [cancelRequested EXCEPT ![port] = TRUE]
            /\ ev' = Ev("stopReading", "ok", {})
  /\ UNCHANGED <<hostState, readableLocked, yielded, delivered, tx, devOut,
                 hostConfig, ctxVars, taskVars,
                 inst, effectPending, port, ports, isOpen, outSig, inSig, config>>

\* `this.port` inside write: useWebSerial is called as a plain function of an
\* ES module, so `this` is undefined there and in the arrow functions it
\* encloses; the hook's own `port` is never what write looks at
ThisPort == NoPort

\* write with optional chaining (this?.port?.writable?.getWriter(),
\* writer?.write): nothing is written and the call still resolves
writeOptionalChaining(data) ==
  /\ ~effectPending
  /\ IF ThisPort = NoPort
       THEN /\ ev' = EvArg("write", "ok", {}, data)
            /\ tx' = tx
       ELSE IF ~Readable(ThisPort)
       THEN /\ ev' = EvArg("write", "ok", {}, data)
            /\ tx' = tx
       ELSE /\ \E ok \in BOOLEAN :
                 IF ok
                   THEN /\ tx' = [tx EXCEPT ![ThisPort] = tx[ThisPort] \o data]
                        /\ ev' = EvArg("write", "ok", {"write"}, data)
                   ELSE /\ tx' = tx
                        /\ ev' = EvArg("write", "DeviceError", {"write"}, data)
  /\ UNCHANGED <<hostState, readableLocked, cancelRequested, yielded, delivered,
                 devOut, hostConfig, ctxVars, taskVars, hookVars>>

write(data) ==
  /\ ~effectPending
  /\ IF ThisPort = NoPort
       THEN \* reading .port of undefined throws before any stream is touched
            /\ ev' = EvArg("write", "TypeError", {}, data)
            /\ tx' = tx
       ELSE IF ~Readable(ThisPort)
       THEN \* writable is null on a port that is not open
            /\ ev' = EvArg("write", "TypeError", {}, data)
            /\ tx' = tx
       ELSE \* getWriter, writer.write(data), releaseLock
            /\ \E ok \in BOOLEAN :
                 IF ok
                   THEN /\ tx' = [tx EXCEPT ![ThisPort] = tx[ThisPort] \o data]
                        /\ ev' = EvArg("write", "ok", {"write"}, data)
                   ELSE /\ tx' = tx
                        /\ ev' = EvArg("write", "DeviceError", {"write"}, data)
  /\ UNCHANGED <<hostState, readableLocked, cancelRequested, yielded, delivered,
                 devOut, hostConfig, ctxVars, taskVars, hookVars>>

\* ----------------------------------------------------- ControlSignalPoller
\* the three output-signal setters, each followed by the setSignals effect
setBreak(b) ==
  /\ ~effectPending
  /\ LET newOut == [outSig EXCEPT ![1] = b]
     IN /\ outSig' = newOut
        /\ devOut' = setSignalsEffect(port, newOut)
        /\ ev' = Ev("setBreak", "ok", EffectCalls(port, newOut))
  /\ UNCHANGED <<hostState, readableLocked, cancelRequested, yielded, delivered, tx,
                 hostConfig, ctxVars, taskVars,
                 inst, effectPending, port, ports, isOpen, isReading, inSig, config>>

setDataTerminalReady(b) ==
  /\ ~effectPending
  /\ LET newOut == [outSig EXCEPT ![2] = b]
     IN /\ outSig' = newOut
        /\ devOut' = setSignalsEffect(port, newOut)
        /\ ev' = Ev("setDataTerminalReady", "ok", EffectCalls(port, newOut))
  /\ UNCHANGED <<hostState, readableLocked, cancelRequested, yielded, delivered, tx,
                 hostConfig, ctxVars, taskVars,
                 inst, effectPending, port, ports, isOpen, isReading, inSig, config>>

setRequestToSend(b) ==
  /\ ~effectPending
  /\ LET newOut == [outSig EXCEPT ![3] = b]
     IN /\ outSig' = newOut
        /\ devOut' = setSignalsEffect(port, newOut)
        /\ ev' = Ev("setRequestToSend", "ok", EffectCalls(port, newOut))
  /\ UNCHANGED <<hostState, readableLocked, cancelRequested, yielded, delivered, tx,
                 hostConfig, ctxVars, taskVars,
                 inst, effectPending, port, ports, isOpen, isReading, inSig, config>>

\* pollTick that tests only `port`, not `port.readable`
pollTickNoReadableCheck ==
  /\ ~effectPending
  /\ pollPending = <<>>
  /\ IF port # NoPort
       THEN /\ pollPending' = <<[inst |-> inst, port |-> port, cts |-> inSig.cts]>>
            /\ ev' = Ev("pollTick", "pending", {"getSignals"})
       ELSE /\ pollPending' = pollPending
            /\ ev' = Ev("pollTick", "skipped", {})
  /\ UNCHANGED <<hostVars, ctxVars, pendingInst, enumPending, reqPending, hookVars>>

\* one firing of the 100 ms interval callback
pollTick ==
  /\ ~effectPending
  /\ pollPending = <<>>
  /\ IF port # NoPort /\ Readable(port)
       THEN /\ pollPending' = <<[inst |-> inst, port |-> port, cts |-> inSig.cts]>>
            /\ ev' = Ev("pollTick", "pending", {"getSignals"})
       ELSE /\ pollPending' = pollPending
            /\ ev' = Ev("pollTick", "skipped", {})
  /\ UNCHANGED <<hostVars, ctxVars, pendingInst, enumPending, reqPending, hookVars>>

Samples == [cts : BOOLEAN, dcd : BOOLEAN, dsr : BOOLEAN, ri : BOOLEAN]

\* the setters the .then callback of getSignals() invokes: every sampled
\* line is compared with the clearToSend the callback closed over
pollSetters(s, c) ==
  (IF s.cts # c THEN {"setClearToSend"} ELSE {})
    \cup (IF s.dcd # c THEN {"setDataCarrierDetect"} ELSE {})
    \cup (IF s.dsr # c THEN {"setDataSetReady"} ELSE {})
    \cup (IF s.ri # c THEN {"setRingIndicator"} ELSE {})

\* getSignals() resolves with sample s
getSignalsResolve(s) ==
  /\ pollPending # <<>>
  /\ Readable(pollPending[1].port)
  /\ pollPending' = <<>>
  /\ LET c == pollPending[1].cts
         set == pollSetters(s, c)
         live == pollPending[1].inst = inst
     IN /\ inSig' = IF live
                      THEN [cts |-> IF "setClearToSend" \in set THEN s.cts ELSE inSig.cts,
                            dcd |-> IF "setDataCarrierDetect" \in set THEN s.dcd ELSE inSig.dcd,
                            dsr |-> IF "setDataSetReady" \in set THEN s.dsr ELSE inSig.dsr,
                            ri |-> IF "setRingIndicator" \in set THEN s.ri ELSE inSig.ri]
                      ELSE inSig
        /\ ev' = Ev("poll", "ok", set)
  /\ UNCHANGED <<hostVars, ctxVars, pendingInst, enumPending, reqPending,
                 inst, effectPending, port, ports, isOpen, isReading, outSig, config>>

\* getSignals() rejects; nothing catches it and no setter runs
getSignalsReject ==
  /\ pollPending # <<>>
  /\ pollPending' = <<>>
  /\ ev' = Ev("poll", "DeviceError", {})
  /\ UNCHANGED <<hostVars, ctxVars, pendingInst, enumPending, reqPending, hookVars>>

\* ------------------------------------------------------ ConfigurationStore
\* the option setters are the bare state setters: no check of the session
setOption(name, field, v) ==
  /\ ~effectPending
  /\ config' = [config EXCEPT ![field] = v]
  /\ ev' = Ev(name, "ok", {})
  /\ UNCHANGED <<hostVars, ctxVars, taskVars,
                 inst, effectPending, port, ports, isOpen, isReading, outSig, inSig>>

setBaudRate(v) == setOption("setBaudRate", "baudRate", v)
setBufferSize(v) == setOption("setBufferSize", "bufferSize", v)
setDataBits(v) == setOption("setDataBits", "dataBits", v)
setStopBits(v) == setOption("setStopBits", "stopBits", v)
setFlowControl(v) == setOption("setFlowControl", "flowControl", v)
setParity(v) == setOption("setParity", "parity", v)

\* ---------------------------------------------------------------- portInfo
HexChars == <<"0", "1", "2", "3", "4", "5", "6", "7", "8", "9", "a", "b", "c", "d", "e", "f">>

\* Number.prototype.toString(16): no leading zeros, lowercase digits
RECURSIVE ToString16(_)
ToString16(n) ==
  IF n < 16 THEN <<HexChars[n + 1]>>
            ELSE ToString16(n \div 16) \o <<HexChars[(n % 16) + 1]>>

\* String.prototype.padStart(len, c) with a one-character filler
RECURSIVE PadStart(_, _, _)
PadStart(str, len, c) ==
  IF Len(str) >= len THEN str ELSE PadStart(<<c>> \o str, len, c)

\* portInfo without the padStart calls
portInfoNoPad(vendorId, productId) ==
  [usbVendorId |-> vendorId,
   usbProductId |-> productId,
   usbId |-> ToString16(vendorId) \o <<":">> \o ToString16(productId)]

\* strings are sequences of one-character strings
portInfo(vendorId, productId) ==
  [usbVendorId |-> vendorId,
   usbProductId |-> productId,
   usbId |-> PadStart(ToString16(vendorId), 4, "0") \o <<":">>
               \o PadStart(ToString16(productId), 4, "0")]

\* the identifiers of USB devices are 16-bit
MaxId == 16 * 16 * 16 * 16 - 1
EdgeIds == {0, 29987, MaxId}
InfoInputs == ((0..MaxId) \X {29987}) \cup (EdgeIds \X EdgeIds) \cup ({6790} \X (0..MaxId))

\* a port whose getInfo() reports the pair drawn here is handed to portInfo
InitInfo ==
  /\ InitState
  /\ \E in \in InfoInputs : ev = EvArg("getInfo", "ok", {}, in)

portInfoCall ==
  /\ ev.op = "getInfo"
  /\ ev' = EvArg("portInfo", "ok", {"getInfo"}, portInfo(ev.arg[1], ev.arg[2]))
  /\ UNCHANGED <<hostVars, ctxVars, taskVars, hookVars>>

SpecInfo == InitInfo /\ [][portInfoCall]_vars

\* -------------------------------------------------------------------- Next
Next ==
  \/ enumerationEffect
  \/ \E list \in PortLists : getPortsResolve(list)
  \/ requestPort
  \/ \E p \in Ports : requestPortResolve(p)
  \/ requestPortReject
  \/ \E p \in Ports \cup {NoPort} : setPort(p)
  \/ openPort
  \/ \E p \in Ports, ok \in BOOLEAN : openSettle(p, ok)
  \/ closePort
  \/ \E p \in Ports, ok \in BOOLEAN : closeSettle(p, ok)
  \/ startReading
  \/ \E p \in Ports, t \in BOOLEAN : readChunk(p, t)
  \/ \E p \in Ports : readDone(p)
  \/ \E p \in Ports : readError(p)
  \/ stopReading
  \/ \E d \in Data : write(d)

Spec == Init /\ [][Next]_vars

\* the session with the signal poller and the output-signal setters
NextSignals ==
  \/ enumerationEffect
  \/ \E list \in PortLists : getPortsResolve(list)
  \/ openPort
  \/ \E p \in Ports, ok \in BOOLEAN : openSettle(p, ok)
  \/ closePort
  \/ \E p \in Ports, ok \in BOOLEAN : closeSettle(p, ok)
  \/ \E b \in BOOLEAN : setBreak(b)
  \/ \E b \in BOOLEAN : setDataTerminalReady(b)
  \/ \E b \in BOOLEAN : setRequestToSend(b)
  \/ pollTick
  \/ \E s \in Samples : getSignalsResolve(s)
  \/ getSignalsReject

SpecSignals == Init /\ [][NextSignals]_vars

\* the same with what the scheduling guarantees: the interval keeps firing
\* and every pending host promise settles; no caller is obliged to call again
FairSignals ==
  /\ WF_vars(enumerationEffect)
  /\ WF_vars(\E list \in PortLists : getPortsResolve(list))
  /\ WF_vars(\E p \in Ports, ok \in BOOLEAN : openSettle(p, ok))
  /\ WF_vars(\E p \in Ports, ok \in BOOLEAN : closeSettle(p, ok))
  /\ WF_vars(pollTick)
  /\ WF_vars((\E s \in Samples : getSignalsResolve(s)) \/ getSignalsReject)

SpecSignalsFair == SpecSignals /\ FairSignals

\* the session with the option setters
NextConfig ==
  \/ enumerationEffect
  \/ \E list \in PortLists : getPortsResolve(list)
  \/ openPort
  \/ \E p \in Ports, ok \in BOOLEAN : openSettle(p, ok)
  \/ closePort
  \/ \E p \in Ports, ok \in BOOLEAN : closeSettle(p, ok)
  \/ \E v \in {9600, 115200} : setBaudRate(v)
  \/ \E v \in {255, 1024} : setBufferSize(v)
  \/ \E v \in {7, 8} : setDataBits(v)
  \/ \E v \in {1, 2} : setStopBits(v)
  \/ \E v \in {"none", "hardware"} : setFlowControl(v)
  \/ \E v \in {"none", "even", "odd"} : setParity(v)

SpecConfig == Init /\ [][NextConfig]_vars

\* several hook instances, one after the other, in one process
NextLifetime ==
  \/ enumerationEffect
  \/ \E list \in PortLists : getPortsResolve(list)
  \/ remount
  \/ requestPort
  \/ \E p \in Ports : requestPortResolve(p)
  \/ requestPortReject
  \/ \E p \in Ports \cup {NoPort} : setPort(p)
  \/ openPort
  \/ \E p \in Ports, ok \in BOOLEAN : openSettle(p, ok)
  \/ closePort
  \/ \E p \in Ports, ok \in BOOLEAN : closeSettle(p, ok)

SpecLifetime == Init /\ [][NextLifetime]_vars

TypeOK ==
  /\ initialized \in BOOLEAN
  /\ getPortsCalls \in 0..MaxInstances
  /\ hostState \in [Ports -> {"closed", "opening", "opened", "closing"}]
  /\ readableLocked \in [Ports -> BOOLEAN]
  /\ cancelRequested \in [Ports -> BOOLEAN]
  /\ yielded \in [Ports -> 0..MaxChunks]
  /\ pendingInst \in [Ports -> 0..MaxInstances]
  /\ port \in Ports \cup {NoPort}
  /\ isOpen \in BOOLEAN
  /\ isReading \in BOOLEAN
  /\ \A p \in Ports : readableLocked[p] => Readable(p)

\* ------------------------------------------------------------------ claims
IsSuffix(t, u) == Len(t) <= Len(u) /\ SubSeq(u, Len(u) - Len(t) + 1, Len(u)) = t
UpTo(n) == [i \in 1..n |-> i]

\* C1: a write call made while the session is Closed (no port selected, or
\* the selected port not open) never resolves successfully and no byte
\* reaches any transport.
C1_WriteNeverSucceedsWhileClosed ==
  [][\A d \in Data : (write(d) /\ SessionClosed) => (ev'.res # "ok" /\ tx' = tx)]_vars

C1_Witness == ev.op = "write" /\ ev.res = "TypeError" /\ SessionClosed

\* C2: a write call made while the session is Open or Reading succeeds unless
\* the transport fails: the whole buffer is appended to what the transport of
\* the selected port received, and the read lock and read loop are untouched.
C2_WriteSucceedsWhenOpen ==
  [][\A d \in Data : (write(d) /\ ~SessionClosed) =>
        \/ ev'.res = "DeviceError"
        \/ /\ ev'.res = "ok"
           /\ tx'[port] = tx[port] \o d
           /\ UNCHANGED <<readableLocked, cancelRequested, yielded, delivered>>]_vars

\* C3: closePort called while a read loop holds the read lock of the selected,
\* open port fails with ReadLocked: no host close() is issued, no port changes
\* its host state and isOpen is left as it was.
C3_CloseWhileReadingFails ==
  [][(closePort /\ SessionReading) =>
        /\ ev'.res = "ReadLocked"
        /\ "close" \notin ev'.calls
        /\ UNCHANGED <<hostState, isOpen>>]_vars

C3_Witness ==
  /\ ev.op = "closePort"
  /\ ev.res = "ReadLocked"
  /\ SessionReading
  /\ Len(delivered[port]) >= 1
  /\ isOpen

\* C4: when the transport signals end-of-data to the read loop of the selected
\* port, with the session reported open and reading, onData has been invoked
\* once per yielded chunk in transport order, the read lock is released and
\* the reported state is Open again: isReading false, isOpen true.
C4_EndOfDataReturnsToOpen ==
  [][\A p \in Ports : (readDone(p) /\ port = p /\ isOpen /\ isReading) =>
        /\ delivered'[p] = UpTo(yielded[p])
        /\ ~readableLocked'[p]
        /\ ~isReading'
        /\ isOpen']_vars

\* C5 (as stated): once stopReading has been called on a read loop that has
\* delivered no chunk yet, that loop never invokes onData.
C5_ZeroOnDataAfterImmediateStop ==
  [][\A p \in Ports : (readableLocked[p] /\ cancelRequested[p] /\ delivered[p] = <<>>)
        => delivered'[p] = <<>>]_vars

\* C5 (amended): once stopReading has been called on a read loop that has
\* delivered no chunk yet, the loop invokes onData at most once, for the chunk
\* of the read that was in flight, and on delivering it the loop exits and
\* releases the read lock.
C5_AtMostInFlightChunkAfterStop ==
  [][\A p \in Ports : (readableLocked[p] /\ cancelRequested[p] /\ delivered[p] = <<>>)
        => /\ Len(delivered'[p]) <= 1
           /\ delivered'[p] # <<>> => ~readableLocked'[p]]_vars

C5_Witness ==
  /\ ev.op = "read"
  /\ ev.res = "cancelled"
  /\ \E p \in Ports : ~readableLocked[p] /\ cancelRequested[p] /\ delivered[p] = <<1>>

\* C6: of two write calls issued one right after the other on an open session
\* both succeed and the transport of the selected port has received the first
\* buffer followed by the second, not interleaved.
C6_BackToBackWritesSerialized ==
  [][\A d \in Data : (write(d) /\ ev.op = "write" /\ ~SessionClosed) =>
        /\ ev.res = "ok"
        /\ ev'.res = "ok"
        /\ IsSuffix(ev.arg \o d, tx'[port])]_vars

\* C7: when a poll of the live instance succeeds, the setters invoked are
\* exactly those of the input signals whose sample differs from the stored
\* value of that same signal, and afterwards every stored input signal equals
\* its sample.
ChangedSetters(s, stored) ==
  (IF s.cts # stored.cts THEN {"setClearToSend"} ELSE {})
    \cup (IF s.dcd # stored.dcd THEN {"setDataCarrierDetect"} ELSE {})
    \cup (IF s.dsr # stored.dsr THEN {"setDataSetReady"} ELSE {})
    \cup (IF s.ri # stored.ri THEN {"setRingIndicator"} ELSE {})

C7_PollUpdatesExactlyChangedSignals ==
  [][\A s \in Samples : (getSignalsResolve(s) /\ pollPending[1].inst = inst) =>
        /\ ev'.calls = ChangedSetters(s, inSig)
        /\ inSig' = s]_vars

\* C8: over all hook instances of one process, getPorts() is called at most
\* once, and an initialisation that finds the context initialized issues no
\* host query and changes nothing of the registry.
C8_EnumerateOnce ==
  /\ [](getPortsCalls <= 1)
  /\ [][(enumerationEffect /\ initialized) =>
          /\ ev'.calls = {}
          /\ UNCHANGED <<ctxVars, enumPending, port, ports>>]_vars

C8_Witness ==
  /\ inst = 2
  /\ ~effectPending
  /\ ev.op = "mount"
  /\ ev.calls = {}
  /\ getPortsCalls = 1

\* C9: openPort with no port selected fails with NoPortSelected and with the
\* selected port open fails with AlreadyOpen; closePort with no port selected
\* fails with NoPortSelected and with the selected port not open fails with
\* NotOpen; none of the four issues a host call or changes a port's host
\* state, isOpen, isReading or the selected port.
NoEffect ==
  /\ ev'.calls = {}
  /\ UNCHANGED <<hostState, pendingInst, isOpen, isReading, port>>

C9_PreconditionViolationsRejected ==
  [][/\ (openPort /\ port = NoPort) => (ev'.res = "NoPortSelected" /\ NoEffect)
     /\ (openPort /\ port # NoPort /\ Readable(port)) => (ev'.res = "AlreadyOpen" /\ NoEffect)
     /\ (closePort /\ port = NoPort) => (ev'.res = "NoPortSelected" /\ NoEffect)
     /\ (closePort /\ port # NoPort /\ ~Readable(port)) => (ev'.res = "NotOpen" /\ NoEffect)]_vars

C9_Witness ==
  /\ ev.op = "openPort"
  /\ ev.res = "AlreadyOpen"
  /\ port # NoPort
  /\ Readable(port)
  /\ isOpen

\* C10: a host open() that fails makes openPort fail with the device error,
\* leaves isOpen as it was and the port closed; a host close() that fails
\* makes closePort fail with the device error, leaves isOpen as it was and
\* the port open.
C10_TransitionsAllOrNothing ==
  [][\A p \in Ports :
        /\ openSettle(p, FALSE) =>
             (ev'.res = "DeviceError" /\ isOpen' = isOpen /\ hostState'[p] = "closed")
        /\ closeSettle(p, FALSE) =>
             (ev'.res = "DeviceError" /\ isOpen' = isOpen /\ hostState'[p] = "opened")]_vars

C10_Witness ==
  /\ ev.op = "openSettle"
  /\ ev.res = "DeviceError"
  /\ port # NoPort
  /\ hostState[port] = "closed"
  /\ ~isOpen

\* C11: whenever the session is Open or Reading, the stored configuration is
\* the configuration the selected port was opened with.
C11_ConfigFixedWhileOpen ==
  ~SessionClosed => config = hostConfig[port]

\* C12: once the enumeration of the authorized ports has resolved, the
\* selected port, if there is one, is an element of the known ports list.
Enumerated == initialized /\ enumPending = NoPort

C12_SelectedIsKnown ==
  (Enumerated /\ port # NoPort) => \E i \in 1..Len(ports) : ports[i] = port

\* C13: for vendor and product identifiers in 0..0xFFFF, portInfo returns as
\* usbId the four lowercase hexadecimal digits of the vendor identifier, a
\* colon and the four lowercase hexadecimal digits of the product identifier
\* (0x1A86 and 0x7523 give "1a86:7523"), and the call changes no state of the
\* session or the registry.
Hex4(n) ==
  <<HexChars[((n \div 4096) % 16) + 1], HexChars[((n \div 256) % 16) + 1],
    HexChars[((n \div 16) % 16) + 1], HexChars[(n % 16) + 1]>>

C13_UsbIdOf(info) == Hex4(info.usbVendorId) \o <<":">> \o Hex4(info.usbProductId)

C13_PortInfoUsbId ==
  /\ [](ev.op = "portInfo" =>
          /\ ev.arg.usbId = C13_UsbIdOf(ev.arg)
          /\ (ev.arg.usbVendorId = 6790 /\ ev.arg.usbProductId = 29987) =>
               ev.arg.usbId = <<"1", "a", "8", "6", ":", "7", "5", "2", "3">>)
  /\ [][portInfoCall =>
          /\ ev'.arg.usbVendorId = ev.arg[1]
          /\ ev'.arg.usbProductId = ev.arg[2]
          /\ UNCHANGED <<hostVars, ctxVars, taskVars, hookVars>>]_vars

C13_Witness ==
  /\ ev.op = "portInfo"
  /\ ev.arg.usbVendorId = 6790
  /\ ev.arg.usbProductId = 29987
  /\ ev.arg.usbId = <<"1", "a", "8", "6", ":", "7", "5", "2", "3">>

\* C14: once stopReading has set the cancellation flag of a port whose read
\* loop is running, every later step either leaves the loop running with the
\* request standing and nothing more delivered, or ends the loop, having
\* delivered at most the one chunk of the read that was in flight.
C14_CancellationHonoured ==
  [][\A p \in Ports : (readableLocked[p] /\ cancelRequested[p]) =>
        /\ Len(delivered'[p]) <= Len(delivered[p]) + 1
        /\ readableLocked'[p] => (cancelRequested'[p] /\ delivered'[p] = delivered[p])]_vars

\* C15: every step that ends a read loop (end-of-data, observed cancellation,
\* a read that rejects, onData throwing) leaves the stream of that port
\* unlocked, and closePort on an open, unlocked port is not rejected as
\* ReadLocked.
ExitResults == {"done", "cancelled", "DeviceError", "OnDataError"}

C15_LockReleasedOnEveryExit ==
  [][/\ \A p \in Ports :
          (\/ readDone(p)
           \/ readError(p)
           \/ readChunk(p, TRUE)
           \/ (readChunk(p, FALSE) /\ cancelRequested[p]))
          => (~readableLocked'[p] /\ ev'.res \in ExitResults)
     /\ (closePort /\ port # NoPort /\ ~readableLocked[port]) => ev'.res # "ReadLocked"]_vars

C15_Witness ==
  /\ ev.op = "closePort"
  /\ ev.res = "pending"
  /\ port # NoPort
  /\ Len(delivered[port]) >= 1

\* C16: a startReading call made while a read loop holds the read lock of the
\* selected port fails and starts no second reader, and onData is invoked for
\* one chunk at a time: a step delivers at most the next chunk of one loop.
C16_SingleReaderSequentialDelivery ==
  [][/\ (startReading /\ SessionReading) =>
          (ev'.res = "TypeError" /\ UNCHANGED <<readableLocked, yielded, delivered>>)
     /\ \A p \in Ports : delivered'[p] # delivered[p] =>
          \/ delivered'[p] = <<>>
          \/ /\ delivered'[p] = Append(delivered[p], Len(delivered[p]) + 1)
             /\ \A q \in Ports \ {p} : delivered'[q] = delivered[q]]_vars

C16_Witness ==
  /\ ev.op = "startReading"
  /\ ev.res = "TypeError"
  /\ SessionReading
  /\ Len(delivered[port]) >= 1

\* C17: whenever the session is open and the caller-set output signals differ
\* from what was last applied to the selected port, they are eventually
\* applied to it (or the session stops being open).
C17_OutputEventuallyApplied ==
  [](( ~SessionClosed /\ devOut[port] # outSig)
       => <>(SessionClosed \/ devOut[port] = outSig))

\* C18: a poller tick that fires while the session is Closed issues no host
\* call, leaves no getSignals() in flight and changes no stored input signal
\* or device line; and any step that calls getSignals or setSignals ends with
\* the session Open or Reading.
C18_PollerOnlyWhileOpen ==
  /\ []((("getSignals" \in ev.calls) \/ ("setSignals" \in ev.calls)) => ~SessionClosed)
  /\ [][(pollTick /\ SessionClosed) =>
          /\ ev'.calls = {}
          /\ UNCHANGED <<pollPending, inSig, devOut>>]_vars

C18_Witness ==
  /\ ev.op = "pollTick"
  /\ ev.res = "skipped"
  /\ port # NoPort
  /\ hostState[port] = "closed"
  /\ inSig # InSig0

\* C19: an openPort call made while the selected port is open at the host or
\* is being opened does not invoke the host open() and fails with AlreadyOpen.
C19_NoDoubleOpen ==
  [][(openPort /\ port # NoPort /\ hostState[port] \in {"opening", "opened"}) =>
        /\ "open" \notin ev'.calls
        /\ ev'.res = "AlreadyOpen"]_vars

\* C20: in every state with no operation suspended at an await, isOpen is
\* true exactly if a port is selected and that port is open at the host.
Quiescent ==
  /\ enumPending = NoPort
  /\ reqPending = NoPort
  /\ \A p \in Ports : hostState[p] \in {"closed", "opened"}

C20_IsOpenDescribesSelectedPort ==
  Quiescent => (isOpen <=> ~SessionClosed)

====
